---- MODULE Spec2Model ----
(***************************************************************************)
(* A model of the job-submission utilities of src/utils/snowflake:         *)
(*   setup.py            ensure_compute_pool_ready, ensure_stage_exists    *)
(*   job_debug.py        wait_for_job, _download_logs, show_job_logs,      *)
(*                       handle_job_result, diagnose_job_failure           *)
(*   job_submit_utils.py submit_directory_job                              *)
(*   artifact_utils.py   download_job_artifacts                            *)
(*   stage_utils.py      download_from_stage                               *)
(* The platform (compute pools, the remote job, the session) is the        *)
(* environment: its answers are drawn from small sets, and the remote job  *)
(* moves through its lifecycle on its own.                                 *)
(***************************************************************************)
EXTENDS Integers, Sequences, FiniteSets, TLC

(* ------------------------------ bounds --------------------------------- *)
\* timeouts tried are k * poll_interval + r, k <= MaxPolls, r <= MaxRem
MaxPolls == 2
MaxRem == 1
\* poll intervals tried by a direct call of wait_for_job are 1..MaxPoll
MaxPoll == 2
\* the longest list SHOW COMPUTE POOLS answers with
MaxPools == 2
\* the longest log text get_logs answers with
MaxLogLen == 2
\* the most seconds the round trips of one poll iteration take
MaxNetDelay == 1
\* match_points_to_dataframe: coordinates and tolerance are whole numbers of one
\* unit, latitudes 0..MaxCoord and tolerances 0..MaxTol; a DataFrame has at most MaxRows rows and
\* lat_lon_pairs at most MaxPairs points
MaxCoord == 1
MaxTol == 1
MaxRows == 1
MaxPairs == 2

(* ------------------------- program constants --------------------------- *)
DefaultPollInterval == 15
DefaultMaxWait == 60
PoolSleep == 3

None == "None"

(* ----------------------------- the platform ---------------------------- *)
PoolStates == {"IDLE", "RUNNING", "SUSPENDED", "STARTING", "STOPPING"}
PoolNames == {"ML_SANDBOX_TEST", "Other_Pool"}
TargetPools == {"ML_SANDBOX_TEST", "ml_sandbox_test"}

\* str.upper() on the names in play
Upper(s) ==
    CASE s = "ml_sandbox_test" -> "ML_SANDBOX_TEST"
      [] s = "Other_Pool" -> "OTHER_POOL"
      [] OTHER -> s

PoolRows == [name : PoolNames, state : PoolStates]

\* the answers of SHOW COMPUTE POOLS: lists of rows, one row per pool
PoolLists ==
    { l \in UNION { [1..n -> PoolRows] : n \in 0..MaxPools } :
        \A i, j \in DOMAIN l : i # j => l[i].name # l[j].name }

JobStatuses == {"PENDING", "RUNNING", "DONE", "FAILED", "CANCELLED"}

\* the remote job's lifecycle, driven by the platform alone
PlatformNext(s) ==
    CASE s = "PENDING" -> {"RUNNING", "FAILED", "CANCELLED"}
      [] s = "RUNNING" -> {"DONE", "FAILED", "CANCELLED"}
      [] OTHER -> {}

LogChars == {"a"}
LogTexts == UNION { [1..n -> LogChars] : n \in 0..MaxLogLen }

\* job ids as the SDK gives them: dotted names, modelled as their segments
JobIds == { <<"HELLO_1">>, <<"AI_ML", "ML", "HELLO_1">> }

\* error messages are their words
LogErrorMsgs == { <<"Request", "failed">>, <<"Logs", "Not", "Available">> }
WriteErrorMsgs == { <<"Disk", "full">> }
NoError == <<>>

\* what job.get_logs(verbose=True) does: answer with a text, or raise
GetLogsOutcomes ==
    { [ok |-> TRUE, text |-> t, err |-> NoError] : t \in LogTexts }
    \cup { [ok |-> FALSE, text |-> <<>>, err |-> m] : m \in LogErrorMsgs }

NoFetch == [ok |-> FALSE, text |-> <<>>, err |-> NoError]

\* how writing a text to the log file goes: open(log_file, "w") raises, or it
\* empties the file and f.write raises with only the first kept characters
\* on disk, or the whole text is written
NoWrite == [opened |-> FALSE, raised |-> FALSE, kept |-> 0, err |-> NoError]
WriteOutcomes(text) ==
    { [opened |-> TRUE, raised |-> FALSE, kept |-> Len(text), err |-> NoError] }
    \cup { [opened |-> FALSE, raised |-> TRUE, kept |-> 0, err |-> m] : m \in WriteErrorMsgs }
    \cup { [opened |-> TRUE, raised |-> TRUE, kept |-> k, err |-> m] :
             k \in 0..(Len(text) - 1), m \in WriteErrorMsgs }

(* ------------------------------- state --------------------------------- *)
VARIABLES
    pc,             \* where the running call stands
    auto_setup,     \* submit_directory_job's auto_setup argument
    faulty,         \* whether this run's log requests and file writes fail in every way
    trace,          \* the helpers submit_directory_job has called, in order
    now,            \* the wall clock, in seconds
    target_pool,    \* ensure_compute_pool_ready: target_pool
    pools,          \* ... the last answer of SHOW COMPUTE POOLS
    state,          \* ... the state of the matching row of the first answer
    wait_time,      \* ... wait_time
    poolRet,        \* ... its return value, None until it returns
    resumeRaised,   \* ... whether the RESUME command raised
    sqlKinds,       \* the SQL commands sent on the session so far
    resumeCount,    \* how many RESUME commands were sent
    jobId,          \* job.id, None before the job exists
    jobStatus,      \* job.status, as the handle reports it
    platformStatus, \* the status the platform last gave the job
    jobCalls,       \* the members of the job handle the code has used
    timeout,        \* wait_for_job: timeout
    poll_interval,  \* ... poll_interval
    start_time,     \* ... start_time
    elapsed,        \* ... elapsed, as of the last deadline check
    timed_out,      \* ... timed_out
    current_status, \* ... current_status
    log_file,       \* ... log_file, None before it is computed
    final_status,   \* ... the status it returns
    polls,          \* ... how many in-loop status reads it has made
    files,          \* the logs directory: path -> content
    fetched,        \* what the last get_logs call did
    dlRet,          \* what the last _download_logs call returned
    result,         \* handle_job_result's return value
    resultCall,     \* how job.result() ended there: "None" while it was not called
    artifacts,      \* the dict of downloaded artifacts
    picked,         \* submit_directory_job: download_artifacts, artifact_keys, artifact_data
    returned,       \* the dict submit_directory_job returned, None if none
    exc,            \* the exception raised inside submit_directory_job's try block
    propagated,     \* the exception submit_directory_job raised to its caller
    diagnosed,      \* the exceptions diagnose_job_failure was called with, in order
    lookups,        \* diagnose_job_failure: the lookups attempted, and how each ended
    lastError,      \* _download_logs._last_error, unset at process start
    warnings,       \* how often each download-failure warning was printed so far
    iter_calls,     \* wait_for_job: the job-handle calls of the current iteration
    gets,           \* the session.file.get calls made, in order
    call,           \* the arguments of a direct call of a download helper
    dfsRet,         \* the path download_from_stage returned to a direct call
    frames,         \* the DataFrame objects alive, by identity
    matchArgs,      \* the arguments of a call of match_points_to_dataframe
    matched         \* the identity of the DataFrame it returned, 0 if none

ctlVars == <<pc, auto_setup, faulty, trace>>
poolVars == <<target_pool, pools, state, wait_time, poolRet, resumeRaised>>
sqlVars == <<sqlKinds, resumeCount>>
jobVars == <<jobId, jobStatus, platformStatus, jobCalls>>
wfjVars == <<timeout, poll_interval, start_time, elapsed, timed_out,
             current_status, log_file, final_status, polls>>
fsVars == <<files, fetched, dlRet>>
resVars == <<result, resultCall, artifacts, picked, returned>>
diagVars == <<exc, propagated, diagnosed, lookups>>
logVars == <<lastError, warnings, iter_calls>>
stageVars == <<gets, call, dfsRet>>
spatialVars == <<frames, matchArgs, matched>>
vars == <<ctlVars, now, poolVars, sqlVars, jobVars, wfjVars, fsVars, resVars,
          diagVars, logVars, stageVars, spatialVars>>


\* a log file path logs_dir / f"{timestamp}_{job_id}.log"; NoLogFile is None
NoLogFile == [ts |-> -1, id |-> "None"]
LogFileName(timestamp, job_id) == [ts |-> timestamp, id |-> job_id]

\* job.id.split(".")[-1] if "." in job.id else job.id
ShortJobId(id) == id[Len(id)]

(* ----------------------- ensure_compute_pool_ready --------------------- *)
\* state in ['IDLE', 'RUNNING']
IsReadyOrStarting(s) == s \in {"IDLE", "RUNNING", "STARTING"}
IsReady(s) == s \in {"IDLE", "RUNNING"}

\* the row's state that is not ready but is resumed: state == 'SUSPENDED'
NeedsResumeOrStopping(s) == s \in {"SUSPENDED", "STOPPING"}
NeedsResume(s) == s = "SUSPENDED"

\* pool["name"].upper() == target_pool.upper()
Matches(row, target) == Upper(row.name) = Upper(target)

\* the rows of an answer that a scan `for p in pools` stops at
FirstOf(S) == CHOOSE i \in S : \A j \in S : i <= j

\* the first pass over the first answer: every branch of a matching row returns
InitialState(l, target) ==
    LET hits == { i \in DOMAIN l : Matches(l[i], target) }
    IN  IF hits = {} THEN "NOT_FOUND" ELSE l[FirstOf(hits)].state

\* the scan inside the wait loop after RESUME: True, False or keep waiting
ScanResumed(l, target) ==
    LET hits == { i \in DOMAIN l : /\ Matches(l[i], target)
                                   /\ (IsReady(l[i].state) \/ l[i].state = "SUSPENDED") }
    IN  IF hits = {} THEN "wait"
        ELSE IF IsReady(l[FirstOf(hits)].state) THEN "True" ELSE "False"

\* the scan inside the wait loop of a STARTING pool: True or keep waiting
ScanStarting(l, target) ==
    IF \E i \in DOMAIN l : Matches(l[i], target) /\ IsReady(l[i].state)
    THEN "True" ELSE "wait"

PoolPcs == {"pool_show", "pool_resume", "pool_wait_resumed", "pool_wait_starting"}

\* lines 46-51, 74-76, 87-91: the first SHOW COMPUTE POOLS and the branch on it
PoolShow ==
    /\ pc = "pool_show"
    /\ sqlKinds' = sqlKinds \cup {"SHOW COMPUTE POOLS"}
    /\ \/ \E answer \in PoolLists :
            LET s == InitialState(answer, target_pool) IN
            /\ pools' = answer
            /\ state' = s
            /\ wait_time' = 0
            /\ IF IsReady(s) THEN poolRet' = "True" /\ pc' = "pool_ret"
               ELSE IF NeedsResume(s) THEN poolRet' = poolRet /\ pc' = "pool_resume"
               ELSE IF s = "STARTING" THEN poolRet' = poolRet /\ pc' = "pool_wait_starting"
               ELSE poolRet' = "False" /\ pc' = "pool_ret"
       \/ \* the query raises: nothing catches it
          /\ pc' = "raised"
          /\ UNCHANGED <<pools, state, wait_time, poolRet>>
    /\ UNCHANGED <<auto_setup, faulty, trace, now, target_pool, resumeRaised, resumeCount,
                   jobVars, wfjVars, fsVars, resVars,
                   diagVars, logVars, stageVars, spatialVars>>

\* lines 52-56, 71-73: ALTER COMPUTE POOL ... RESUME
PoolResume ==
    /\ pc = "pool_resume"
    /\ sqlKinds' = sqlKinds \cup {"ALTER COMPUTE POOL RESUME"}
    /\ resumeCount' = resumeCount + 1
    /\ \/ /\ pc' = "pool_wait_resumed"
          /\ wait_time' = 0
          /\ UNCHANGED <<poolRet, resumeRaised>>
       \/ /\ resumeRaised' = TRUE
          /\ poolRet' = "False"
          /\ pc' = "pool_ret"
          /\ UNCHANGED wait_time
    /\ UNCHANGED <<auto_setup, faulty, trace, now, target_pool, pools, state,
                   jobVars, wfjVars, fsVars, resVars,
                   diagVars, logVars, stageVars, spatialVars>>

\* lines 57-73: one turn of the wait loop after RESUME
PoolWaitResumed ==
    /\ pc = "pool_wait_resumed"
    /\ IF wait_time < DefaultMaxWait
       THEN /\ wait_time' = wait_time + PoolSleep
            /\ sqlKinds' = sqlKinds \cup {"SHOW COMPUTE POOLS"}
            /\ \/ \E answer \in PoolLists :
                    LET r == ScanResumed(answer, target_pool) IN
                    /\ pools' = answer
                    /\ IF r = "wait" THEN poolRet' = poolRet /\ pc' = pc
                       ELSE poolRet' = r /\ pc' = "pool_ret"
               \/ \* the query raises inside the try: caught, return False
                  /\ poolRet' = "False"
                  /\ pc' = "pool_ret"
                  /\ UNCHANGED pools
       ELSE /\ poolRet' = "False"
            /\ pc' = "pool_ret"
            /\ UNCHANGED <<wait_time, sqlKinds, pools>>
    /\ UNCHANGED <<auto_setup, faulty, trace, now, target_pool, state, resumeRaised,
                   resumeCount, jobVars, wfjVars, fsVars, resVars,
                   diagVars, logVars, stageVars, spatialVars>>

\* lines 74-86: one turn of the wait loop of a STARTING pool
PoolWaitStarting ==
    /\ pc = "pool_wait_starting"
    /\ IF wait_time < DefaultMaxWait
       THEN /\ wait_time' = wait_time + PoolSleep
            /\ sqlKinds' = sqlKinds \cup {"SHOW COMPUTE POOLS"}
            /\ \/ \E answer \in PoolLists :
                    LET r == ScanStarting(answer, target_pool) IN
                    /\ pools' = answer
                    /\ IF r = "wait" THEN poolRet' = poolRet /\ pc' = pc
                       ELSE poolRet' = r /\ pc' = "pool_ret"
               \/ \* the query raises: nothing catches it
                  /\ pc' = "raised"
                  /\ UNCHANGED <<pools, poolRet>>
       ELSE /\ poolRet' = "False"
            /\ pc' = "pool_ret"
            /\ UNCHANGED <<wait_time, sqlKinds, pools>>
    /\ UNCHANGED <<auto_setup, faulty, trace, now, target_pool, state, resumeRaised,
                   resumeCount, jobVars, wfjVars, fsVars, resVars,
                   diagVars, logVars, stageVars, spatialVars>>

(* ---------------------------- _download_logs --------------------------- *)
\* open(log_file, "w"); f.write(logs)
WriteFile(fs, path, text) ==
    [p \in DOMAIN fs \cup {path} |-> IF p = path THEN text ELSE fs[p]]

\* the answers of get_logs in a run: a run that is not faulty knows one error
LogAnswers(f) ==
    IF f THEN GetLogsOutcomes
    ELSE { o \in GetLogsOutcomes : o.err \in {NoError, <<"Request", "failed">>} }

\* the writes that follow an answer of get_logs: none unless there is a text,
\* and only the successful one in a run that is not faulty
WritesAfter(f, o) ==
    IF o.ok /\ o.text # <<>>
    THEN IF f THEN WriteOutcomes(o.text) ELSE { w \in WriteOutcomes(o.text) : ~w.raised }
    ELSE {NoWrite}

DownloadLogsAlways(fs, path, o, w) ==
    IF o.ok /\ (w.opened \/ o.text = <<>>)
    THEN WriteFile(fs, path, SubSeq(o.text, 1, w.kept))
    ELSE fs

\* lines 75-90: the logs directory after _download_logs(job, path), given get_logs'
\* outcome and the write's
DownloadLogs(fs, path, o, w) ==
    IF o.ok /\ o.text # <<>> /\ w.opened
    THEN WriteFile(fs, path, SubSeq(o.text, 1, w.kept))
    ELSE fs

DownloadSizeFetched(o, w) == IF o.ok THEN Len(o.text) ELSE 0

\* lines 80-81, 90: the value _download_logs returns
DownloadSize(o, w) == IF o.ok /\ o.text # <<>> /\ ~w.raised THEN Len(o.text) ELSE 0

\* line 82: the exception the except clause catches, NoError if there is none
ErrorOf(o, w) == IF ~o.ok THEN o.err ELSE w.err

\* str.lower() on the words in play
Lower(word) ==
    CASE word = "Logs" -> "logs"
      [] word = "Not" -> "not"
      [] word = "Available" -> "available"
      [] OTHER -> word

\* phrase in str(e).lower()
Mentions(msg, phrase) ==
    \E i \in 1..(Len(msg) - Len(phrase) + 1) :
        \A j \in 1..Len(phrase) : Lower(msg[i + j - 1]) = phrase[j]

\* line 88: the errors that only say there are no logs yet
NoLogsYet(msg) == Mentions(msg, <<"not", "found">>) \/ Mentions(msg, <<"not", "available">>)

\* lines 85-86: _download_logs._last_error after the call
LastError(last, e) == IF e = NoError THEN last ELSE e

\* lines 85-89: whether the call prints its warning
Warned(last, e) == e # NoError /\ e # last /\ ~NoLogsYet(e)

\* the console after the call: how often each warning has been printed
Console(printed, last, e) ==
    [m \in DOMAIN printed |-> IF m = e /\ Warned(last, e) THEN printed[m] + 1 ELSE printed[m]]

\* lines 72-90: one call _download_logs(job, path)
DownloadCall(path) ==
    \E o \in LogAnswers(faulty) : \E w \in WritesAfter(faulty, o) :
        /\ fetched' = o
        /\ files' = DownloadLogs(files, path, o, w)
        /\ dlRet' = DownloadSize(o, w)
        /\ lastError' = LastError(lastError, ErrorOf(o, w))
        /\ warnings' = Console(warnings, lastError, ErrorOf(o, w))

(* ------------------------------ wait_for_job --------------------------- *)
\* line 62: current_status in ["DONE", "FAILED", "CANCELLED"]
IsTerminalNotRunning(s) == s # "RUNNING"
IsTerminalNoCancel(s) == s \in {"DONE", "FAILED"}
IsTerminal(s) == s \in {"DONE", "FAILED", "CANCELLED"}

\* line 32: elapsed >= timeout
DeadlinePassed(e, t) == e > t
DeadlineReached(e, t) == e >= t

Timeouts(p) == { k * p + r : k \in 0..MaxPolls, r \in 0..MaxRem }

\* lines 15-26: the log file name and the start time
WfjStart ==
    /\ pc = "wfj_start"
    /\ \E t \in Timeouts(poll_interval) : timeout' = t
    /\ jobCalls' = jobCalls \cup {"id"}
    /\ log_file' = LogFileName(now, ShortJobId(jobId))
    /\ start_time' = now
    /\ timed_out' = FALSE
    /\ trace' = Append(trace, "wait_for_job")
    /\ pc' = "wfj_check"
    /\ UNCHANGED <<auto_setup, faulty, now, poolVars, sqlVars, jobId, jobStatus,
                   platformStatus, poll_interval, elapsed, current_status, final_status,
                   polls, fsVars, resVars,
                   diagVars, logVars, stageVars, spatialVars>>

\* lines 29-35: the deadline check at the top of the loop
WfjCheck ==
    /\ pc = "wfj_check"
    /\ elapsed' = now - start_time
    /\ IF DeadlineReached(now - start_time, timeout)
       THEN /\ timed_out' = TRUE
            /\ jobCalls' = jobCalls \cup {"status"}
            /\ iter_calls' = <<"status">>
            /\ pc' = "wfj_timeout"
       ELSE /\ pc' = "wfj_status"
            /\ iter_calls' = <<>>
            /\ UNCHANGED <<timed_out, jobCalls>>
    /\ UNCHANGED <<auto_setup, faulty, trace, now, poolVars, sqlVars, jobId, jobStatus,
                   platformStatus, timeout, poll_interval, start_time, current_status,
                   log_file, final_status, polls, fsVars, resVars,
                   diagVars, lastError, warnings, stageVars, spatialVars>>

\* line 41: current_status = job.status
WfjStatus ==
    /\ pc = "wfj_status"
    /\ current_status' = jobStatus
    /\ jobCalls' = jobCalls \cup {"status"}
    /\ polls' = polls + 1
    /\ iter_calls' = Append(iter_calls, "poll")
    /\ pc' = "wfj_logs"
    /\ UNCHANGED <<auto_setup, faulty, trace, now, poolVars, sqlVars, jobId, jobStatus,
                   platformStatus, timeout, poll_interval, start_time, elapsed, timed_out,
                   log_file, final_status, fsVars, resVars,
                   diagVars, lastError, warnings, stageVars, spatialVars>>

\* lines 44-62: the in-loop log download and the terminal test
WfjLogs ==
    /\ pc = "wfj_logs"
    /\ DownloadCall(log_file)
    /\ jobCalls' = jobCalls \cup {"get_logs"}
    /\ iter_calls' = Append(iter_calls, "get_logs")
    /\ pc' = IF IsTerminal(current_status) THEN "wfj_final" ELSE "wfj_sleep"
    /\ UNCHANGED <<auto_setup, faulty, trace, now, poolVars, sqlVars, jobId, jobStatus,
                   platformStatus, wfjVars, resVars,
                   diagVars, stageVars, spatialVars>>

WfjFinalNoLogs ==
    /\ pc = "wfj_final"
    /\ final_status' = current_status
    /\ pc' = "wfj_ret"
    /\ UNCHANGED <<auto_setup, faulty, trace, now, poolVars, sqlVars, jobVars,
                   timeout, poll_interval, start_time, elapsed, timed_out,
                   current_status, log_file, polls, fsVars, resVars,
                   diagVars, logVars, stageVars, spatialVars>>

\* lines 63-66: the last download and the return on a terminal status
WfjFinal ==
    /\ pc = "wfj_final"
    /\ DownloadCall(log_file)
    /\ jobCalls' = jobCalls \cup {"get_logs"}
    /\ iter_calls' = Append(iter_calls, "get_logs")
    /\ final_status' = current_status
    /\ pc' = "wfj_ret"
    /\ UNCHANGED <<auto_setup, faulty, trace, now, poolVars, sqlVars, jobId, jobStatus,
                   platformStatus, timeout, poll_interval, start_time, elapsed, timed_out,
                   current_status, log_file, polls, resVars,
                   diagVars, stageVars, spatialVars>>

\* line 69: time.sleep(poll_interval); the clock has moved on by the sleep and by
\* whatever the round trips of the iteration took when line 29 reads it next
WfjSleep ==
    /\ pc = "wfj_sleep"
    /\ \E d \in 0..MaxNetDelay : now' = now + poll_interval + d
    /\ pc' = "wfj_check"
    /\ UNCHANGED <<auto_setup, faulty, trace, poolVars, sqlVars, jobVars, wfjVars,
                   fsVars, resVars,
                   diagVars, logVars, stageVars, spatialVars>>

WfjTimeoutCancel ==
    /\ pc = "wfj_timeout"
    /\ DownloadCall(log_file)
    /\ jobCalls' = jobCalls \cup {"get_logs", "status", "cancel"}
    /\ jobStatus' = IF IsTerminal(jobStatus) THEN jobStatus ELSE "CANCELLED"
    /\ final_status' = jobStatus'
    /\ iter_calls' = iter_calls \o <<"get_logs", "status">>
    /\ pc' = "wfj_ret"
    /\ UNCHANGED <<auto_setup, faulty, trace, now, poolVars, sqlVars, jobId,
                   platformStatus, timeout, poll_interval, start_time, elapsed, timed_out,
                   current_status, log_file, polls, resVars,
                   diagVars, stageVars, spatialVars>>

\* lines 36-38: the last download and the return after the deadline
WfjTimeout ==
    /\ pc = "wfj_timeout"
    /\ DownloadCall(log_file)
    /\ jobCalls' = jobCalls \cup {"get_logs", "status"}
    /\ final_status' = jobStatus
    /\ iter_calls' = iter_calls \o <<"get_logs", "status">>
    /\ pc' = "wfj_ret"
    /\ UNCHANGED <<auto_setup, faulty, trace, now, poolVars, sqlVars, jobId, jobStatus,
                   platformStatus, timeout, poll_interval, start_time, elapsed, timed_out,
                   current_status, log_file, polls, resVars,
                   diagVars, stageVars, spatialVars>>

(* ------------------------------ show_job_logs -------------------------- *)
ShowLogFileFresh(given, timestamp, id) == LogFileName(timestamp, ShortJobId(id))

\* lines 102-107: the file show_job_logs writes to
ShowLogFile(given, timestamp, id) ==
    IF given = NoLogFile THEN LogFileName(timestamp, ShortJobId(id)) ELSE given

\* lines 98-126: the logs directory after show_job_logs(job, log_file=given)
ShowLogs(fs, given, timestamp, id, o, w) ==
    IF o.ok /\ o.text # <<>> /\ w.opened
    THEN WriteFile(fs, ShowLogFile(given, timestamp, id), SubSeq(o.text, 1, w.kept))
    ELSE fs

(* ------------------------------ exceptions ---------------------------- *)
\* error messages are their words
ErrorMsgs == { <<"Job", "HELLO_1", "failed">>, <<"connection", "reset">> }
NoExc == [site |-> "None", msg |-> <<>>]
\* an exception raised by the named step
Raise(site) == { [site |-> site, msg |-> m] : m \in ErrorMsgs }

\* job_debug.py lines 157-158: re.search(r'HELLO_[\w]+', error_msg)
JobIdIn(msg) ==
    LET hits == { i \in DOMAIN msg : msg[i] \in {"HELLO_1"} }
    IN  IF hits = {} THEN None
        ELSE msg[CHOOSE i \in hits : \A j \in hits : i <= j]

(* ---------------------------- job results ------------------------------ *)
\* dict keys are their "_"-separated words, stage paths their "/"-separated segments
KeyPng == <<"png", "stage", "path">>
KeyModel == <<"model", "path">>
KeyName == <<"name">>
KeyPlot == <<"plot">>
PathPlot == <<"@STAGE", "out", "plot.png">>
PathModel == <<"@STAGE", "model">>
EmptyStr == <<>>

EmptyDict == [k \in {} |-> EmptyStr]

NoneResult == [none |-> TRUE, hasOutputs |-> FALSE, outputs |-> EmptyDict, top |-> EmptyDict]

MkResult(top, hasOutputs, outputs) ==
    [none |-> FALSE, hasOutputs |-> hasOutputs, outputs |-> outputs, top |-> top]

\* what job.result() can give: dicts of stage paths, with or without "outputs"
Results ==
    { MkResult(EmptyDict, FALSE, EmptyDict),
      MkResult([k \in {KeyPng, KeyName} |-> IF k = KeyPng THEN PathPlot ELSE <<"run1">>],
               FALSE, EmptyDict),
      MkResult([k \in {KeyModel} |-> EmptyStr], FALSE, EmptyDict),
      MkResult([k \in {KeyName} |-> <<"run1">>], TRUE,
               [k \in {KeyPlot, KeyModel} |-> IF k = KeyPlot THEN PathPlot ELSE PathModel]),
      MkResult([k \in {KeyModel} |-> PathModel], TRUE, EmptyDict) }

\* bool(result)
Truthy(r) == ~r.none /\ (r.hasOutputs \/ DOMAIN r.top # {})

\* k.endswith("_stage_path") or k.endswith("_path")
EndsWithPath(k) == Len(k) >= 2 /\ k[Len(k)] = "path"

NoKeys == {<<"None">>}
ArtifactKeyChoices == { NoKeys, {KeyPng}, {KeyModel, KeyPlot} }

\* nothing selected: the arguments are not read before line 126
NoPick == [download_artifacts |-> FALSE, artifact_keys |-> NoKeys, data |-> EmptyDict]

ArtifactDataTopOnly(r, keys) ==
    IF keys = NoKeys
    THEN [k \in { k \in DOMAIN r.top : EndsWithPath(k) } |-> r.top[k]]
    ELSE [k \in { k \in keys : k \in DOMAIN r.top /\ r.top[k] # EmptyStr } |-> r.top[k]]

\* job_submit_utils.py lines 128-139: artifact_data
ArtifactData(r, keys) ==
    IF keys = NoKeys
    THEN IF r.hasOutputs /\ DOMAIN r.outputs # {}
         THEN r.outputs
         ELSE [k \in { k \in DOMAIN r.top : EndsWithPath(k) } |-> r.top[k]]
    ELSE [k \in { k \in keys : k \in DOMAIN r.top /\ r.top[k] # EmptyStr } |-> r.top[k]]

(* --------------------------- stage downloads --------------------------- *)
\* local paths are their segments; the empty path is "."
Cwd == <<>>
NoPath == <<"None">>
ArtifactsDir == <<"artifacts">>
KeyCsv == <<"csv", "stage", "path">>
PathCsv == <<"@STAGE", "data.csv">>
NoKeyList == << <<"None">> >>

\* Path(name).suffix is not empty, for the names in play
HasSuffix(filename) == filename \in {"plot.png", "data.csv", "renamed.png", "v1.0"}

\* stage_path.split("/")[-1]
LastSegment(path) == path[Len(path)]

\* Path.parent
Parent(path) == IF path = Cwd THEN Cwd ELSE SubSeq(path, 1, Len(path) - 1)

\* the arguments tried in direct calls of the download helpers
StagePaths == { PathPlot, PathModel, PathCsv, <<"@STAGE", "plot.png">> }
LocalPaths ==
    { NoPath, Cwd, <<"downloads">>, <<"downloads", "plot.png">>,
      <<"downloads", "renamed.png">>, <<"downloads", "model">>, <<"releases", "v1.0">>,
      <<"data.csv">> }
ArtifactKeys == { KeyPng, KeyCsv, KeyModel }
ArtifactValues == { EmptyStr, PathPlot, PathModel }
ResultDicts == UNION { [ks -> ArtifactValues] : ks \in SUBSET ArtifactKeys }
KeyLists == { NoKeyList, <<KeyPng>>, <<KeyModel, KeyPng>>, <<KeyCsv, KeyModel>> }
DirSets == { {}, { <<"artifacts", "plot.png">> } }

NoCall == [stage_path |-> <<>>, local_path |-> NoPath, is_dir |-> FALSE,
           result |-> EmptyDict, keys |-> NoKeyList, dirs |-> {}]

\* stage_utils.py lines 153-167: the path download_from_stage returns, and the
\* session.file.get call it makes; is_dir is local_path_obj.is_dir()
DownloadFromStage(stage_path, local_path, is_dir) ==
    LET given == IF local_path = NoPath THEN Cwd ELSE local_path
        obj == IF is_dir \/ given = Cwd \/ ~HasSuffix(LastSegment(given))
               THEN given \o <<LastSegment(stage_path)>>
               ELSE given
    IN  [ret |-> obj,
         get |-> [stage_path |-> stage_path, target_directory |-> Parent(obj)]]

\* artifact_utils.py lines 36-38
StagePathKeys(keys) == IF keys = NoKeyList THEN <<KeyPng, KeyCsv>> ELSE keys

\* artifact_utils.py lines 40-53: the dict download_job_artifacts returns and the
\* session.file.get calls it makes; dirs are the directories that exist already
RECURSIVE DownloadLoop(_, _, _, _)
DownloadLoop(res, keys, artifacts_dir, dirs) ==
    IF keys = <<>>
    THEN [downloaded |-> EmptyDict, gets |-> <<>>]
    ELSE LET before == DownloadLoop(res, SubSeq(keys, 1, Len(keys) - 1),
                                    artifacts_dir, dirs)
             key == keys[Len(keys)]
         IN  IF key \in DOMAIN res /\ res[key] # EmptyStr
             THEN LET local_path == artifacts_dir \o <<LastSegment(res[key])>>
                      d == DownloadFromStage(res[key], local_path, local_path \in dirs)
                  IN  [downloaded |->
                          [k \in DOMAIN before.downloaded \cup {key} |->
                              IF k = key THEN d.ret ELSE before.downloaded[k]],
                       gets |-> Append(before.gets, d.get)]
             ELSE before

DownloadJobArtifacts(res, keys, artifacts_dir, dirs) ==
    DownloadLoop(res, StagePathKeys(keys), artifacts_dir, dirs)

\* list(artifact_data.keys())
RECURSIVE KeyList(_)
KeyList(keys) ==
    IF keys = {} THEN <<>>
    ELSE LET k == CHOOSE k \in keys : TRUE IN <<k>> \o KeyList(keys \ {k})

\* job_submit_utils.py lines 146-151: download_job_artifacts(session, artifact_data, ...)
Artifacts(data) == DownloadJobArtifacts(data, KeyList(DOMAIN data), ArtifactsDir, {})

\* a direct call download_from_stage(session, stage_path, local_path)
DfsCall ==
    /\ pc = "dfs_call"
    /\ LET d == DownloadFromStage(call.stage_path, call.local_path, call.is_dir)
       IN  /\ gets' = Append(gets, d.get)
           /\ dfsRet' = d.ret
    /\ pc' = "dfs_ret"
    /\ UNCHANGED <<auto_setup, faulty, trace, now, poolVars, sqlVars, jobVars, wfjVars,
                   fsVars, resVars, diagVars, logVars, call, spatialVars>>

\* a direct call download_job_artifacts(session, result, artifacts_dir, stage_path_keys)
DjaCall ==
    /\ pc = "dja_call"
    /\ LET d == DownloadJobArtifacts(call.result, call.keys, ArtifactsDir, call.dirs)
       IN  /\ gets' = gets \o d.gets
           /\ artifacts' = d.downloaded
    /\ pc' = "dja_ret"
    /\ UNCHANGED <<auto_setup, faulty, trace, now, poolVars, sqlVars, jobVars, wfjVars,
                   fsVars, result, resultCall, picked, returned, diagVars, logVars, call,
                   dfsRet, spatialVars>>

(* ----------------------- match_points_to_dataframe --------------------- *)
LatCol == "LAT"
LonCol == "LON"
MatchCol == "MATCH_ID"
\* latitudes; the longitudes are two values, on and off a point's
Lats == 0..MaxCoord
Lons == {0, 1}
Tolerances == 0..MaxTol
MatchIds == {"A", "B"}

SeqsUpTo(S, n) == UNION { [1..k -> S] : k \in 0..n }

\* a DataFrame: its columns in order and its rows, each a value per column
DataFrames ==
    { [columns |-> <<LatCol, LonCol>>, rows |-> rs] :
        rs \in SeqsUpTo({ [LAT |-> a, LON |-> b] : a \in Lats, b \in Lons }, MaxRows) }

\* lat_lon_pairs: tuples (lat, lon, match_id)
LatLonPairs == SeqsUpTo([lat : Lats, lon : Lons, match_id : MatchIds], MaxPairs)

NoFrame == [columns |-> <<>>, rows |-> <<>>]
NoMatchCall == [df |-> 0, passed |-> NoFrame, lat_lon_pairs |-> <<>>, lat_col |-> LatCol,
                lon_col |-> LonCol, tolerance |-> 0, match_col |-> MatchCol]

\* no call of match_points_to_dataframe in this run
NoSpatial ==
    /\ frames = <<>>
    /\ matchArgs = NoMatchCall
    /\ matched = 0

Abs(x) == IF x < 0 THEN -x ELSE x

\* line 69: df = df.copy(), a new object with the same content
DfCopy(heap, id) == [heap |-> Append(heap, heap[id]), id |-> Len(heap) + 1]

\* line 70: df[match_col] = None, the column appended when it is new
SetColumn(frame, col, v) ==
    [columns |-> IF \E i \in DOMAIN frame.columns : frame.columns[i] = col
                 THEN frame.columns ELSE Append(frame.columns, col),
     rows |-> [i \in DOMAIN frame.rows |->
                  [c \in DOMAIN frame.rows[i] \cup {col} |->
                      IF c = col THEN v ELSE frame.rows[i][c]]]]

MaskEither(frame, lat_col, lon_col, lat, lon, tolerance) ==
    { i \in DOMAIN frame.rows :
        \/ Abs(frame.rows[i][lat_col] - lat) <= tolerance
        \/ Abs(frame.rows[i][lon_col] - lon) <= tolerance }

\* lines 73-76: the rows within tolerance of the point on both columns
Mask(frame, lat_col, lon_col, lat, lon, tolerance) ==
    { i \in DOMAIN frame.rows :
        /\ Abs(frame.rows[i][lat_col] - lat) <= tolerance
        /\ Abs(frame.rows[i][lon_col] - lon) <= tolerance }

\* line 77: df.loc[mask, match_col] = match_id
SetWhere(frame, mask, col, v) ==
    [frame EXCEPT !.rows =
        [i \in DOMAIN frame.rows |->
            IF i \in mask THEN [frame.rows[i] EXCEPT ![col] = v] ELSE frame.rows[i]]]

\* lines 72-77: the loop over lat_lon_pairs, first point first
RECURSIVE MatchLoop(_, _, _, _, _, _)
MatchLoop(frame, lat_lon_pairs, lat_col, lon_col, tolerance, match_col) ==
    IF lat_lon_pairs = <<>> THEN frame
    ELSE LET p == Head(lat_lon_pairs)
             mask == Mask(frame, lat_col, lon_col, p.lat, p.lon, tolerance)
         IN  MatchLoop(SetWhere(frame, mask, match_col, p.match_id), Tail(lat_lon_pairs),
                       lat_col, lon_col, tolerance, match_col)

\* lines 46-79; df is the identity of the caller's DataFrame
MatchPointsToDataframe(heap, df, lat_lon_pairs, lat_col, lon_col, tolerance, match_col) ==
    LET c == DfCopy(heap, df)
        blank == SetColumn(c.heap[c.id], match_col, None)
        done == MatchLoop(blank, lat_lon_pairs, lat_col, lon_col, tolerance, match_col)
    IN  [heap |-> [c.heap EXCEPT ![c.id] = done], ret |-> c.id]

\* a call match_points_to_dataframe(df, lat_lon_pairs, tolerance=...)
MatchCall ==
    /\ pc = "match_call"
    /\ LET m == MatchPointsToDataframe(frames, matchArgs.df, matchArgs.lat_lon_pairs,
                                       matchArgs.lat_col, matchArgs.lon_col,
                                       matchArgs.tolerance, matchArgs.match_col)
       IN  /\ frames' = m.heap
           /\ matched' = m.ret
    /\ pc' = "match_ret"
    /\ UNCHANGED <<auto_setup, faulty, trace, now, poolVars, sqlVars, jobVars, wfjVars,
                   fsVars, resVars, diagVars, logVars, stageVars, matchArgs>>

(* --------------------------- submit_directory_job ---------------------- *)
NoJob == <<>>

SdjStartNoPool ==
    /\ pc = "sdj_start"
    /\ IF auto_setup
       THEN /\ \E compute_pool \in TargetPools : target_pool' = compute_pool
            /\ pc' = "pool_ret"
       ELSE /\ pc' = "submit"
            /\ UNCHANGED target_pool
    /\ UNCHANGED <<auto_setup, faulty, trace, now, pools, state, wait_time, poolRet,
                   resumeRaised, sqlVars, jobVars, wfjVars, fsVars, resVars,
                   diagVars, logVars, stageVars, spatialVars>>

\* lines 76-86: the call, up to the first helper
SdjStart ==
    /\ pc = "sdj_start"
    /\ IF auto_setup
       THEN /\ trace' = Append(trace, "ensure_compute_pool_ready")
            /\ \E compute_pool \in TargetPools : target_pool' = compute_pool
            /\ pc' = "pool_show"
       ELSE /\ pc' = "submit"
            /\ UNCHANGED <<trace, target_pool>>
    /\ UNCHANGED <<auto_setup, faulty, now, pools, state, wait_time, poolRet, resumeRaised,
                   sqlVars, jobVars, wfjVars, fsVars, resVars,
                   diagVars, logVars, stageVars, spatialVars>>

\* lines 86-88 and setup.py 94-97: the pool's answer is dropped, the stage is created
EnsureStageExists ==
    /\ pc = "pool_ret"
    /\ trace' = Append(trace, "ensure_stage_exists")
    /\ sqlKinds' = sqlKinds \cup {"CREATE STAGE IF NOT EXISTS"}
    /\ \/ pc' = "submit"
       \/ pc' = "raised"
    \* ensure_compute_pool_ready's frame is gone
    /\ target_pool' = None
    /\ pools' = <<>>
    /\ state' = None
    /\ wait_time' = 0
    /\ resumeRaised' = FALSE
    /\ UNCHANGED <<auto_setup, faulty, now, poolRet, resumeCount,
                   jobVars, wfjVars, fsVars, resVars,
                   diagVars, logVars, stageVars, spatialVars>>

\* lines 105-117: submit_directory(...)
SubmitDirectory ==
    /\ pc = "submit"
    /\ trace' = Append(trace, "submit_directory")
    /\ \/ \E id \in JobIds :
            /\ jobId' = id
            /\ jobStatus' = "PENDING"
            /\ platformStatus' = "PENDING"
            /\ jobCalls' = {"id"}
            /\ pc' = "wfj_start"
            /\ UNCHANGED exc
       \/ /\ \E e \in Raise("submit_directory") : exc' = e
          /\ pc' = "diagnose"
          /\ UNCHANGED jobVars
    /\ UNCHANGED <<auto_setup, faulty, now, poolVars, sqlVars, wfjVars, fsVars, resVars,
                   propagated, diagnosed, lookups, logVars, stageVars, spatialVars>>

\* line 121: show_job_logs(job, log_file=log_file)
ShowJobLogs ==
    /\ pc = "wfj_ret"
    /\ trace' = Append(trace, "show_job_logs")
    /\ \E o \in LogAnswers(faulty) : \E w \in WritesAfter(faulty, o) :
          files' = ShowLogs(files, log_file, now, jobId, o, w)
    /\ jobCalls' = jobCalls \cup {"get_logs"}
    /\ pc' = "handle_result"
    \* wait_for_job's frame is gone
    /\ fetched' = NoFetch
    /\ dlRet' = 0
    /\ iter_calls' = <<>>
    /\ timeout' = 0
    /\ start_time' = 0
    /\ elapsed' = 0
    /\ current_status' = None
    /\ polls' = 0
    /\ UNCHANGED <<auto_setup, faulty, now, poolVars, sqlVars, jobId, jobStatus,
                   platformStatus, poll_interval, timed_out, log_file,
                   final_status, resVars,
                   diagVars, lastError, warnings, stageVars, spatialVars>>

ResultReadyOrFailed(s) == s \in {"DONE", "FAILED"}

\* job_debug.py line 131: job.status == "DONE"
ResultReady(s) == s = "DONE"

\* line 122 and job_debug.py 129-151: handle_job_result(job, timed_out)
HandleJobResult ==
    /\ pc = "handle_result"
    /\ trace' = Append(trace, "handle_job_result")
    /\ \/ /\ IF ResultReady(jobStatus)
             THEN /\ jobCalls' = jobCalls \cup {"status", "result"}
                  /\ \/ /\ \E r \in Results \cup {NoneResult} : result' = r
                        /\ resultCall' = "returned"
                     \/ \* job.result() raises: lines 137-142
                        /\ result' = NoneResult
                        /\ resultCall' = "raised"
             ELSE /\ jobCalls' = jobCalls \cup {"status"}
                  /\ result' = NoneResult
                  /\ UNCHANGED resultCall
          /\ pc' = "artifacts"
          /\ UNCHANGED exc
       \/ \* reading job.status raises, outside handle_job_result's own try
          /\ jobCalls' = jobCalls \cup {"status"}
          /\ \E e \in Raise("handle_job_result") : exc' = e
          /\ pc' = "diagnose"
          /\ UNCHANGED <<result, resultCall>>
    /\ UNCHANGED <<auto_setup, faulty, now, poolVars, sqlVars, jobId, jobStatus,
                   platformStatus, wfjVars, fsVars, artifacts, picked, returned,
                   propagated, diagnosed, lookups, logVars, stageVars, spatialVars>>

\* lines 125-163: the artifact download and the returned dict
DownloadArtifacts ==
    /\ pc = "artifacts"
    /\ \E download_artifacts \in BOOLEAN, artifact_keys \in ArtifactKeyChoices :
          LET wanted == download_artifacts /\ Truthy(result)
              data == IF wanted THEN ArtifactData(result, artifact_keys) ELSE EmptyDict
          IN  /\ picked' = [download_artifacts |-> download_artifacts,
                            artifact_keys |-> artifact_keys, data |-> data]
              /\ IF wanted /\ data # EmptyDict
                 THEN /\ trace' = Append(trace, "download_job_artifacts")
                      /\ \/ /\ artifacts' = Artifacts(data).downloaded
                            /\ gets' = gets \o Artifacts(data).gets
                            /\ returned' = <<[job_id |-> jobId, status |-> final_status,
                                              result |-> result,
                                              artifacts |-> Artifacts(data).downloaded,
                                              timed_out |-> timed_out]>>
                            /\ pc' = "returned"
                            /\ UNCHANGED exc
                         \/ \* session.file.get raises
                            /\ Artifacts(data).gets # <<>>
                            /\ gets' = Append(gets, Artifacts(data).gets[1])
                            /\ \E e \in Raise("download_job_artifacts") : exc' = e
                            /\ pc' = "diagnose"
                            /\ UNCHANGED <<artifacts, returned>>
                 ELSE /\ artifacts' = EmptyDict
                      /\ returned' = <<[job_id |-> jobId, status |-> final_status,
                                        result |-> result, artifacts |-> EmptyDict,
                                        timed_out |-> timed_out]>>
                      /\ pc' = "returned"
                      /\ UNCHANGED <<trace, exc, gets>>
    /\ UNCHANGED <<auto_setup, faulty, now, poolVars, sqlVars, jobVars, wfjVars,
                   fsVars, result, resultCall, propagated, diagnosed, lookups,
                   logVars, call, dfsRet, spatialVars>>

(* --------------------------- diagnose_job_failure ---------------------- *)
AfterGetJobRetry(ok) == IF ok THEN "diag_ret" ELSE "diag_get_job"

AfterGetJobAlways(ok) == "diag_history"

\* job_debug.py lines 174-183: the SQL lookups are in the except clause of the SDK lookup
AfterGetJob(ok) == IF ok THEN "diag_ret" ELSE "diag_history"

AfterHistoryStop(ok) == IF ok THEN "diag_ret" ELSE "diag_logs"

\* job_debug.py lines 186-211: the container-log lookup follows the history lookup's
\* try statement, however that ended
AfterHistory(ok) == "diag_logs"

\* lines 165-166 and job_debug.py 156-172: diagnose_job_failure(e, ...) up to the lookups
Diagnose ==
    /\ pc = "diagnose"
    /\ trace' = Append(trace, "diagnose_job_failure")
    /\ diagnosed' = Append(diagnosed, exc)
    /\ lookups' = <<>>
    /\ pc' = IF JobIdIn(exc.msg) # None THEN "diag_get_job" ELSE "diag_ret"
    /\ UNCHANGED <<auto_setup, faulty, now, poolVars, sqlVars, jobVars, wfjVars,
                   fsVars, resVars, exc, propagated, logVars, stageVars, spatialVars>>

\* job_debug.py lines 174-183: get_job, the status and the logs through the SDK
DiagGetJob ==
    /\ pc = "diag_get_job"
    /\ \E ok \in BOOLEAN :
          /\ lookups' = Append(lookups, [name |-> "get_job", ok |-> ok])
          /\ pc' = AfterGetJob(ok)
    /\ UNCHANGED <<auto_setup, faulty, trace, now, poolVars, sqlVars, jobVars, wfjVars,
                   fsVars, resVars, exc, propagated, diagnosed, logVars, stageVars, spatialVars>>

\* job_debug.py lines 186-209: the job-history query
DiagHistory ==
    /\ pc = "diag_history"
    /\ sqlKinds' = sqlKinds \cup {"SELECT GET_JOB_HISTORY"}
    /\ \E ok \in BOOLEAN :
          /\ lookups' = Append(lookups, [name |-> "job_history", ok |-> ok])
          /\ pc' = AfterHistory(ok)
    /\ UNCHANGED <<auto_setup, faulty, trace, now, poolVars, resumeCount, jobVars, wfjVars,
                   fsVars, resVars, exc, propagated, diagnosed, logVars, stageVars, spatialVars>>

\* job_debug.py lines 211-233: the container-log query
DiagContainerLogs ==
    /\ pc = "diag_logs"
    /\ sqlKinds' = sqlKinds \cup {"SELECT SPCS_GET_LOGS"}
    /\ \E ok \in BOOLEAN :
          lookups' = Append(lookups, [name |-> "container_logs", ok |-> ok])
    /\ pc' = "diag_ret"
    /\ UNCHANGED <<auto_setup, faulty, trace, now, poolVars, resumeCount, jobVars, wfjVars,
                   fsVars, resVars, exc, propagated, diagnosed, logVars, stageVars, spatialVars>>

ReraiseNew ==
    /\ pc = "diag_ret"
    /\ propagated' = [site |-> "diagnose_job_failure", msg |-> exc.msg]
    /\ pc' = "raised"
    /\ UNCHANGED <<auto_setup, faulty, trace, now, poolVars, sqlVars, jobVars, wfjVars,
                   fsVars, resVars, exc, diagnosed, lookups, logVars, stageVars, spatialVars>>

\* line 167: raise
Reraise ==
    /\ pc = "diag_ret"
    /\ propagated' = exc
    /\ pc' = "raised"
    /\ UNCHANGED <<auto_setup, faulty, trace, now, poolVars, sqlVars, jobVars, wfjVars,
                   fsVars, resVars, exc, diagnosed, lookups, logVars, stageVars, spatialVars>>

(* ------------------------------ the platform --------------------------- *)
\* the remote job moves on by itself
Platform ==
    /\ jobId # NoJob
    /\ \E s \in PlatformNext(jobStatus) :
          /\ jobStatus' = s
          /\ platformStatus' = s
    /\ UNCHANGED <<ctlVars, now, poolVars, sqlVars, jobId, jobCalls, wfjVars,
                   fsVars, resVars,
                   diagVars, logVars, stageVars, spatialVars>>

(* --------------------------- the specification ------------------------- *)
\* what every call starts from
InitCommon ==
    /\ platformStatus = jobStatus
    /\ target_pool = None
    /\ trace = <<>>
    /\ now = 0
    /\ pools = <<>>
    /\ state = None
    /\ wait_time = 0
    /\ poolRet = None
    /\ resumeRaised = FALSE
    /\ sqlKinds = {}
    /\ resumeCount = 0
    /\ jobCalls = {}
    /\ timeout = 0
    /\ start_time = 0
    /\ elapsed = 0
    /\ timed_out = FALSE
    /\ current_status = None
    /\ log_file = NoLogFile
    /\ final_status = None
    /\ polls = 0
    /\ files = EmptyDict
    /\ fetched = NoFetch
    /\ dlRet = 0
    /\ result = NoneResult
    /\ resultCall = None
    /\ exc = NoExc
    /\ propagated = NoExc
    /\ diagnosed = <<>>
    /\ lookups = <<>>
    /\ lastError = NoError
    /\ warnings = [m \in LogErrorMsgs \cup WriteErrorMsgs |-> 0]
    /\ iter_calls = <<>>
    /\ gets = <<>>
    /\ dfsRet = NoPath
    /\ artifacts = EmptyDict
    /\ picked = NoPick
    /\ returned = <<>>

\* a call of submit_directory_job: no job yet, wait_for_job's default poll_interval
Init ==
    /\ pc = "sdj_start"
    /\ auto_setup \in BOOLEAN
    /\ faulty = FALSE
    /\ poll_interval = DefaultPollInterval
    /\ jobId = NoJob
    /\ jobStatus = None
    /\ call = NoCall
    /\ NoSpatial
    /\ InitCommon

\* a call of wait_for_job(job, timeout, poll_interval) on a job in any status
InitWait ==
    /\ pc = "wfj_start"
    /\ auto_setup = FALSE
    /\ faulty = FALSE
    /\ poll_interval \in 1..MaxPoll
    /\ jobId \in JobIds
    /\ jobStatus \in JobStatuses
    /\ call = NoCall
    /\ NoSpatial
    /\ InitCommon

\* a call of wait_for_job in a run where log requests and file writes fail in every way
InitLog ==
    /\ pc = "wfj_start"
    /\ auto_setup = FALSE
    /\ faulty = TRUE
    /\ poll_interval = 1
    /\ jobId \in JobIds
    /\ jobStatus \in JobStatuses
    /\ call = NoCall
    /\ NoSpatial
    /\ InitCommon

\* what is common to the direct calls of the download helpers
InitHelper ==
    /\ auto_setup = FALSE
    /\ faulty = FALSE
    /\ poll_interval = DefaultPollInterval
    /\ jobId = NoJob
    /\ jobStatus = None
    /\ NoSpatial
    /\ InitCommon

\* a call of download_from_stage; "." is a directory
InitStage ==
    /\ pc = "dfs_call"
    /\ \E sp \in StagePaths, lp \in LocalPaths, d \in BOOLEAN :
          /\ lp \in {NoPath, Cwd} => d
          /\ call = [NoCall EXCEPT !.stage_path = sp, !.local_path = lp, !.is_dir = d]
    /\ InitHelper

\* a call of download_job_artifacts
InitArtifacts ==
    /\ pc = "dja_call"
    /\ \E r \in ResultDicts, ks \in KeyLists, ds \in DirSets :
          call = [NoCall EXCEPT !.result = r, !.keys = ks, !.dirs = ds]
    /\ InitHelper

\* a call of match_points_to_dataframe on the caller's DataFrame, object 1
InitMatch ==
    /\ pc = "match_call"
    /\ \E d \in DataFrames, ps \in LatLonPairs, t \in Tolerances :
          /\ frames = <<d>>
          /\ matchArgs = [NoMatchCall EXCEPT !.df = 1, !.passed = d,
                                             !.lat_lon_pairs = ps, !.tolerance = t]
    /\ matched = 0
    /\ auto_setup = FALSE
    /\ faulty = FALSE
    /\ poll_interval = DefaultPollInterval
    /\ jobId = NoJob
    /\ jobStatus = None
    /\ call = NoCall
    /\ InitCommon

Program ==
    \/ SdjStart
    \/ PoolShow
    \/ PoolResume
    \/ PoolWaitResumed
    \/ PoolWaitStarting
    \/ EnsureStageExists
    \/ SubmitDirectory
    \/ WfjStart
    \/ WfjCheck
    \/ WfjStatus
    \/ WfjLogs
    \/ WfjFinal
    \/ WfjSleep
    \/ WfjTimeout
    \/ ShowJobLogs
    \/ HandleJobResult
    \/ DownloadArtifacts
    \/ Diagnose
    \/ DiagGetJob
    \/ DiagHistory
    \/ DiagContainerLogs
    \/ Reraise

Next == Program \/ Platform

Spec == Init /\ [][Next]_vars

WaitProgram ==
    \/ WfjStart
    \/ WfjCheck
    \/ WfjStatus
    \/ WfjLogs
    \/ WfjFinal
    \/ WfjSleep
    \/ WfjTimeout

WaitNext == WaitProgram \/ Platform

\* wait_for_job called by itself, with every failure of the log download in play
LogSpec == InitLog /\ [][WaitNext]_vars

\* the download helpers called by themselves
StageSpec == InitStage /\ [][DfsCall]_vars
ArtifactSpec == InitArtifacts /\ [][DjaCall]_vars

\* match_points_to_dataframe called by itself
MatchSpec == InitMatch /\ [][MatchCall]_vars

\* wait_for_job called by itself; the call is a single thread that keeps running,
\* so its next step is always taken
WaitSpec == InitWait /\ [][WaitNext]_vars /\ WF_vars(WaitProgram)

(* ------------------------------- claims -------------------------------- *)
CeilDiv(a, b) == (a + b - 1) \div b

\* C1: wait_for_job returns timed_out = False only with a status among DONE,
\* FAILED, CANCELLED, and timed_out = True only when the elapsed time of the
\* deadline check was at least the timeout.
C1_ReturnsTerminalOrLate ==
    pc = "wfj_ret" =>
        /\ ~timed_out => final_status \in {"DONE", "FAILED", "CANCELLED"}
        /\ timed_out => elapsed >= timeout

C1_Witness ==
    /\ pc = "wfj_ret"
    /\ timed_out
    /\ final_status = "RUNNING"
    /\ polls >= 2
    /\ elapsed > timeout

\* C2: with the clock moving on by poll_interval at every sleep, wait_for_job
\* returns whatever the job does, after at most ceil(timeout / poll_interval)
\* status reads inside the loop.
C2_Terminates ==
    /\ [](polls <= CeilDiv(timeout, poll_interval))
    /\ (pc = "wfj_start") ~> (pc = "wfj_ret")

C2_Witness ==
    /\ pc = "wfj_ret"
    /\ timed_out
    /\ final_status = "PENDING"
    /\ polls = MaxPolls
    /\ polls = CeilDiv(timeout, poll_interval)

\* C3: a status that is terminal at a status read of the loop (a poll made
\* before the deadline) and stays so is the status wait_for_job returns, with
\* timed_out = False.
C3_PollsUntilTerminal ==
    \A s \in {"DONE", "FAILED", "CANCELLED"} :
        [](((pc = "wfj_status" /\ jobStatus = s) /\ [](jobStatus = s))
             => <>(pc = "wfj_ret" /\ final_status = s /\ ~timed_out))

C3_Witness ==
    /\ pc = "wfj_ret"
    /\ ~timed_out
    /\ final_status = "CANCELLED"
    /\ polls >= 2

\* the content of a file, nothing if it does not exist
FileText(fs, p) == IF p \in DOMAIN fs THEN fs[p] ELSE <<>>

\* C4 as stated: after every iteration of the polling loop the log file holds
\* the log text fetched from the job in that iteration (read here for the
\* iterations whose get_logs call answered at all).
C4_Original ==
    (pc = "wfj_sleep" /\ fetched.ok) => FileText(files, log_file) = fetched.text

\* C4 as amended: a download of the loop that fetched a text that is not empty
\* and wrote it without an error leaves exactly that text in the log file; one
\* that fetched an empty text, or whose get_logs raised, leaves the logs
\* directory as it was.
C4_OverwrittenWhenFetched ==
    [][(pc \in {"wfj_logs", "wfj_final"} /\ pc' # pc) =>
          /\ dlRet' > 0 => log_file \in DOMAIN files' /\ files'[log_file] = fetched'.text
          /\ (fetched'.ok /\ fetched'.text # <<>>) \/ files' = files]_vars

C4_Witness ==
    /\ pc = "wfj_sleep"
    /\ ~fetched.ok
    /\ log_file \in DOMAIN files
    /\ Len(files[log_file]) = 2

\* C5: the log file path is fixed once wait_for_job has computed it, and every
\* log write of the call and of the show_job_logs after it goes to that one
\* path: the logs directory never holds a second file.
C5_OneLogFile ==
    /\ [](DOMAIN files \subseteq {log_file})
    /\ [][log_file # NoLogFile => log_file' = log_file]_vars

C5_Witness ==
    /\ pc = "handle_result"
    /\ DOMAIN files = {log_file}
    /\ now > log_file.ts
    /\ jobCalls = {"id", "status", "get_logs"}

Steps ==
    << "ensure_compute_pool_ready", "ensure_stage_exists", "submit_directory",
       "wait_for_job", "show_job_logs", "handle_job_result" >>

\* C6: a submit_directory_job call with auto_setup that returns has run, in this
\* order and each once: the pool check, the stage check, the submission, the
\* wait, the log fetch, the result fetch, and after them at most one artifact
\* download.
C6_StepsInOrder ==
    (returned # <<>> /\ auto_setup) =>
        trace \in {Steps, Steps \o <<"download_job_artifacts">>}

C6_Witness ==
    /\ returned # <<>>
    /\ auto_setup
    /\ Len(trace) = Len(Steps) + 1
    /\ DOMAIN returned[1].artifacts # {}

\* C7 as stated: with auto_setup the job is submitted only after
\* ensure_compute_pool_ready returned True.
C7_SubmittedOnlyWhenReady ==
    (auto_setup /\ jobId # NoJob) => poolRet = "True"

InPool == pc \in PoolPcs \cup {"pool_ret"}

\* C8 as stated: ensure_compute_pool_ready sends nothing but SHOW COMPUTE POOLS.
C8_Original ==
    InPool => sqlKinds \subseteq {"SHOW COMPUTE POOLS"}

\* C8 as amended: ensure_compute_pool_ready sends SHOW COMPUTE POOLS and, at
\* most once and only for a pool first seen SUSPENDED, ALTER COMPUTE POOL ...
\* RESUME; for every other first state it sends SHOW COMPUTE POOLS alone.
C8_ResumeOnlyWhenSuspended ==
    /\ resumeCount <= 1
    /\ InPool =>
          /\ sqlKinds \subseteq {"SHOW COMPUTE POOLS", "ALTER COMPUTE POOL RESUME"}
          /\ state # "SUSPENDED" =>
                resumeCount = 0 /\ sqlKinds \subseteq {"SHOW COMPUTE POOLS"}

C8_Witness ==
    /\ pc = "pool_ret"
    /\ resumeCount = 1
    /\ poolRet = "True"
    /\ wait_time > PoolSleep

\* C9: ensure_compute_pool_ready returns True only when the last answer lists
\* the target pool, by its upper-cased name, as IDLE or RUNNING; it returns
\* False when the first answer does not list the pool or lists it in a state
\* other than IDLE, RUNNING, SUSPENDED, STARTING, when RESUME raised, and when
\* the wait loop is left with max_wait used up.
C9_PoolReturn ==
    /\ [](pc = "pool_ret" =>
            /\ poolRet \in {"True", "False"}
            /\ poolRet = "True" =>
                  \E i \in DOMAIN pools :
                      /\ Upper(pools[i].name) = Upper(target_pool)
                      /\ pools[i].state \in {"IDLE", "RUNNING"}
            /\ state \notin {"IDLE", "RUNNING", "SUSPENDED", "STARTING"} =>
                  poolRet = "False"
            /\ resumeRaised => poolRet = "False")
    /\ [][(/\ pc \in {"pool_wait_resumed", "pool_wait_starting"}
           /\ wait_time >= DefaultMaxWait
           /\ pc' # pc) => (pc' = "pool_ret" /\ poolRet' = "False")]_vars

C9_Witness ==
    /\ pc = "pool_ret"
    /\ poolRet = "True"
    /\ target_pool = "ml_sandbox_test"
    /\ state = "STARTING"
    /\ wait_time = DefaultMaxWait

\* C10: the code uses the job handle to read: it touches id, status, get_logs
\* and result only, and the job's status is always the one the platform gave
\* it, also after wait_for_job has timed out.
C10_HandleReadOnly ==
    /\ jobCalls \subseteq {"id", "status", "get_logs", "result"}
    /\ jobStatus = platformStatus

C10_Witness ==
    /\ returned # <<>>
    /\ returned[1].timed_out
    /\ returned[1].status = "PENDING"
    /\ jobStatus = "RUNNING"

(* ------------------------- diagnose_job_failure ------------------------ *)
\* the lookups attempted so far in the diagnosis
Attempted == { lookups[i].name : i \in DOMAIN lookups }

\* C11 as stated: the lookups are independent of each other, so a diagnosis that
\* reached its lookups has attempted all three of them by the time it returns,
\* whichever of them succeeded or raised.
C11_Original ==
    (pc = "diag_ret" /\ lookups # <<>>) =>
        Attempted = {"get_job", "job_history", "container_logs"}

\* C11 as amended: the two SQL lookups are attempted exactly when the SDK lookup
\* raised, and no lookup at all unless the error message names a job; only the
\* container-log query is independent of the lookup before it: it is attempted
\* whether the job-history query succeeded or raised.
C11_FallbackChain ==
    pc = "diag_ret" =>
        /\ lookups # <<>> => \E i \in DOMAIN exc.msg : exc.msg[i] = "HELLO_1"
        /\ "job_history" \in Attempted <=>
               \E i \in DOMAIN lookups : lookups[i] = [name |-> "get_job", ok |-> FALSE]
        /\ "container_logs" \in Attempted <=> "job_history" \in Attempted

C11_Witness ==
    /\ pc = "diag_ret"
    /\ Len(lookups) = 3
    /\ lookups[2] = [name |-> "job_history", ok |-> TRUE]
    /\ lookups[3].name = "container_logs"

\* C12: diagnose_job_failure retries nothing: in one invocation each lookup is
\* attempted at most once, whatever raised.
C12_NoRetries ==
    /\ \A i, j \in DOMAIN lookups : i # j => lookups[i].name # lookups[j].name
    /\ Len(diagnosed) <= 1

C12_Witness ==
    /\ pc = "diag_ret"
    /\ Len(lookups) = 3
    /\ \A i \in DOMAIN lookups : ~lookups[i].ok

(* ------------------------- submit_directory_job ------------------------ *)
\* C13: when a step inside the try block raises, diagnose_job_failure is called
\* exactly once, with that exception, and that same exception reaches the
\* caller; no later step of the pipeline runs, and a dict is returned only when
\* no step raised.
C13_DiagnosedOnceThenReraised ==
    /\ (pc = "raised" /\ exc # NoExc) => diagnosed = <<exc>> /\ propagated = exc
    /\ exc # NoExc =>
           pc \in {"diagnose", "diag_get_job", "diag_history", "diag_logs",
                   "diag_ret", "raised"}
    /\ returned # <<>> => exc = NoExc /\ diagnosed = <<>> /\ propagated = NoExc
    /\ propagated # NoExc => pc = "raised"

C13_Witness ==
    /\ pc = "raised"
    /\ exc.site = "download_job_artifacts"
    /\ diagnosed = <<exc>>
    /\ propagated = exc
    /\ "diagnose_job_failure" = trace[Len(trace)]

\* C14: in every dict submit_directory_job returns, "result" is not None only
\* if "status" is "DONE".
C14_ResultOnlyWithDone ==
    returned # <<>> =>
        (returned[1].result # NoneResult => returned[1].status = "DONE")

\* C15: handle_job_result returns something other than None only when the
\* status it read is DONE and job.result() did not raise; it returns None for
\* every other status, and an exception of job.result() never leaves it.
C15_ResultOnlyWhenDone ==
    [][(pc = "handle_result" /\ pc' # pc) =>
          /\ result' # NoneResult => jobStatus = "DONE" /\ resultCall' = "returned"
          /\ (jobStatus # "DONE" /\ pc' = "artifacts") =>
                 result' = NoneResult /\ resultCall' = "None"
          /\ resultCall' = "raised" =>
                 pc' = "artifacts" /\ result' = NoneResult /\ exc' = NoExc]_vars

C15_Witness ==
    /\ pc = "artifacts"
    /\ jobStatus = "DONE"
    /\ resultCall = "raised"
    /\ result = NoneResult

(* ----------------------------- _download_logs -------------------------- *)
\* s is a strict prefix of t
StrictPrefix(s, t) == Len(s) < Len(t) /\ s = SubSeq(t, 1, Len(s))

\* C16 as stated: _download_logs returns the size of the logs written and 0 if
\* none; a call that returns 0 (no text, get_logs raised, or the write raised)
\* leaves the log file as it was, and one that returns n > 0 leaves exactly the
\* n characters just fetched in it.
C16_Original ==
    [][(pc \in {"wfj_logs", "wfj_final", "wfj_timeout"} /\ pc' # pc) =>
          /\ dlRet' \in {0, Len(fetched'.text)}
          /\ dlRet' = 0 => files' = files
          /\ dlRet' > 0 => FileText(files', log_file) = fetched'.text]_vars

\* C16 as amended: the call returns 0 and leaves the file as it was when
\* get_logs answers no text or raises; when the write of a fetched text raises
\* it returns 0 too, but the file is as it was only if open() raised: after
\* that the file holds just the part written before the error, which may be
\* nothing; a call that returns n > 0 leaves exactly the n characters fetched.
C16_ZeroUnlessWritten ==
    [][(pc \in {"wfj_logs", "wfj_final", "wfj_timeout"} /\ pc' # pc) =>
          /\ dlRet' \in {0, Len(fetched'.text)}
          /\ (~fetched'.ok \/ fetched'.text = <<>>) => dlRet' = 0 /\ files' = files
          /\ dlRet' > 0 => FileText(files', log_file) = fetched'.text
          /\ (dlRet' = 0 /\ fetched'.ok /\ fetched'.text # <<>>) =>
                 \/ files' = files
                 \/ /\ log_file \in DOMAIN files'
                    /\ StrictPrefix(files'[log_file], fetched'.text)]_vars

C16_Witness ==
    /\ pc = "wfj_sleep"
    /\ fetched.ok
    /\ Len(fetched.text) = 2
    /\ dlRet = 0
    /\ FileText(files, log_file) = <<"a">>
    /\ polls = 2

\* C17: the download-failure warning is printed once per error message: no
\* message is printed a second time.
C17_WarnedOncePerMessage ==
    \A m \in DOMAIN warnings : warnings[m] <= 1

(* ------------------------------ wait_for_job --------------------------- *)
\* C18: wait_for_job returns only after a last log download that follows the
\* last status poll of the loop: on a terminal status the last iteration has
\* polled and then downloaded twice, after the deadline it has not polled and
\* has downloaded exactly once.
C18_FinalDownload ==
    pc = "wfj_ret" =>
        LET downloads == { i \in DOMAIN iter_calls : iter_calls[i] = "get_logs" }
            polled == { i \in DOMAIN iter_calls : iter_calls[i] = "poll" }
        IN  /\ downloads # {}
            /\ \A i \in polled : \E j \in downloads : j > i
            /\ ~timed_out => Cardinality(downloads) = 2 /\ Cardinality(polled) = 1
            /\ timed_out => Cardinality(downloads) = 1 /\ polled = {}

C18_Witness ==
    /\ pc = "wfj_ret"
    /\ ~timed_out
    /\ polls = 2
    /\ iter_calls = <<"poll", "get_logs", "get_logs">>

(* ---------------------------- stage downloads -------------------------- *)
\* C19: download_job_artifacts returns a dict whose keys are exactly the keys of
\* stage_path_keys (by default png_stage_path and csv_stage_path) that result
\* holds with a value that is not empty; it downloads once for each of them,
\* into artifacts_dir, to the file named by the last segment of the stage path.
C19_DownloadsIntoArtifactsDir ==
    pc = "dja_ret" =>
        LET keys == IF call.keys = << <<"None">> >>
                    THEN << <<"png", "stage", "path">>, <<"csv", "stage", "path">> >>
                    ELSE call.keys
            wanted == { keys[i] : i \in { i \in DOMAIN keys :
                            /\ keys[i] \in DOMAIN call.result
                            /\ call.result[keys[i]] # <<>> } }
        IN  /\ DOMAIN artifacts = wanted
            /\ Len(gets) = Cardinality(wanted)
            /\ \A k \in wanted :
                   LET sp == call.result[k] IN
                   /\ \E i \in DOMAIN gets :
                          gets[i] = [stage_path |-> sp, target_directory |-> <<"artifacts">>]
                   /\ artifacts[k] = <<"artifacts", sp[Len(sp)]>>

\* C20: the path download_from_stage returns is where the file was put: the
\* directory given to session.file.get, then the last segment of stage_path.
C20_ReturnsDownloadedFile ==
    pc = "dfs_ret" =>
        dfsRet = gets[1].target_directory \o <<call.stage_path[Len(call.stage_path)]>>

(* ------------------- diagnose_job_failure: the order -------------------- *)
\* C23: the lookups of one diagnosis run in a fixed order: the SDK lookup is
\* the first; a second lookup is made only after the SDK lookup raised, and it
\* is the job-history query; the third is the container-log query, and a
\* diagnosis that made the history query returns only after the container-log
\* query too, whether the history query succeeded or raised.
C23_FixedSequence ==
    /\ Len(lookups) <= 3
    /\ Len(lookups) >= 1 => lookups[1].name = "get_job"
    /\ Len(lookups) >= 2 => ~lookups[1].ok /\ lookups[2].name = "job_history"
    /\ Len(lookups) >= 3 => lookups[3].name = "container_logs"
    /\ (pc \in {"diag_ret", "raised"} /\ Len(lookups) >= 1 /\ ~lookups[1].ok) =>
           Len(lookups) = 3

C23_Witness ==
    /\ pc = "diag_ret"
    /\ lookups = << [name |-> "get_job", ok |-> FALSE],
                    [name |-> "job_history", ok |-> FALSE],
                    [name |-> "container_logs", ok |-> TRUE] >>

(* ---------------- submit_directory_job: artifact selection -------------- *)
\* C21: in a call that returned, the artifacts were chosen as documented: with
\* artifact_keys=None every key of a non-empty "outputs" dict of the result, and
\* without such a dict the result keys ending in "_stage_path" or "_path"; with
\* artifact_keys given, those of them whose value in the result is truthy; and
\* "artifacts" in the returned dict is not empty only if download_artifacts is
\* True and the result is truthy, and holds chosen keys only.
C21_ArtifactsChosenAsDocumented ==
    returned # <<>> =>
        LET r == returned[1].result
            keys == picked.artifact_keys
            truthy == ~r.none /\ (r.hasOutputs \/ DOMAIN r.top # {})
            fromOutputs == keys = {<<"None">>} /\ r.hasOutputs /\ DOMAIN r.outputs # {}
            chosen ==
                IF keys = {<<"None">>}
                THEN IF fromOutputs
                     THEN DOMAIN r.outputs
                     ELSE { k \in DOMAIN r.top : Len(k) >= 2 /\ k[Len(k)] = "path" }
                ELSE { k \in keys : k \in DOMAIN r.top /\ r.top[k] # <<>> }
        IN  /\ (picked.download_artifacts /\ truthy) =>
                   /\ DOMAIN picked.data = chosen
                   /\ \A k \in chosen :
                          picked.data[k] = IF fromOutputs THEN r.outputs[k] ELSE r.top[k]
            /\ returned[1].artifacts # <<>> => picked.download_artifacts /\ truthy
            /\ DOMAIN returned[1].artifacts \subseteq DOMAIN picked.data
            /\ \A i \in DOMAIN gets :
                   \E k \in DOMAIN picked.data : gets[i].stage_path = picked.data[k]

C21_Witness ==
    /\ pc = "returned"
    /\ picked.download_artifacts
    /\ picked.artifact_keys = {<<"None">>}
    /\ returned[1].result.hasOutputs
    /\ DOMAIN picked.data = { <<"plot">>, <<"model", "path">> }
    /\ DOMAIN returned[1].artifacts = { <<"plot">>, <<"model", "path">> }
    /\ Len(gets) = 2

(* ----------------------- match_points_to_dataframe --------------------- *)
\* C22: match_points_to_dataframe returns a copy of the input with match_col
\* added and leaves the input DataFrame as it was: the returned frame is another
\* object with the input's rows and columns plus match_col; a row has None there
\* iff no point is within tolerance of it on both latitude and longitude, and
\* otherwise the match_id of the last such point of lat_lon_pairs.
C22_LastMatchWins ==
    pc = "match_ret" =>
        LET given == matchArgs.passed
            out == frames[matched]
            ps == matchArgs.lat_lon_pairs
            tol == matchArgs.tolerance
        IN  /\ matched # matchArgs.df
            /\ frames[matchArgs.df] = given
            /\ out.columns = given.columns \o <<"MATCH_ID">>
            /\ Len(out.rows) = Len(given.rows)
            /\ \A i \in DOMAIN given.rows :
                  LET hits == { j \in DOMAIN ps :
                                  /\ given.rows[i].LAT - ps[j].lat \in (0 - tol)..tol
                                  /\ given.rows[i].LON - ps[j].lon \in (0 - tol)..tol }
                  IN  /\ out.rows[i].LAT = given.rows[i].LAT
                      /\ out.rows[i].LON = given.rows[i].LON
                      /\ out.rows[i].MATCH_ID = "None" <=> hits = {}
                      /\ \A j \in hits :
                            (\A k \in hits : k <= j) => out.rows[i].MATCH_ID = ps[j].match_id

\* a row within tolerance of two points with different ids gets the second id
C22_Witness ==
    /\ pc = "match_ret"
    /\ matchArgs.tolerance = 0
    /\ Len(matchArgs.lat_lon_pairs) = 2
    /\ matchArgs.lat_lon_pairs[1] = [lat |-> 1, lon |-> 0, match_id |-> "A"]
    /\ matchArgs.lat_lon_pairs[2] = [lat |-> 1, lon |-> 0, match_id |-> "B"]
    /\ matchArgs.passed.rows = << [LAT |-> 1, LON |-> 0] >>
    /\ frames[matched].rows[1].MATCH_ID = "B"

====
